---- MODULE Spec2Model ----
(***************************************************************************)
(* Model of the Captions AI Ads client: the HTTP error mapping of          *)
(* CaptionsAPIClient._make_request, the polling loop of                    *)
(* CaptionsAPIClient.wait_for_completion and the workflow of               *)
(* VideoGenerator.generate_ad_video (validate, makedirs, filename, submit, *)
(* wait, download).                                                        *)
(*                                                                         *)
(* Encoding of Python values:                                              *)
(*  - text that the code inspects character by character (script, creator  *)
(*    name, resolution, filename) is a sequence of one-character strings;  *)
(*  - opaque text (URLs, operation ids, error details) is a TLA+ string;   *)
(*  - None is the reserved string None, which no input set contains;       *)
(*  - a JSON object is a function from its keys to values, dict.get is Get;*)
(*  - an exception message built by an f-string is the sequence of its     *)
(*    literal and interpolated parts.                                      *)
(* Time is an integer clock `now` (time.time()); it advances while a poll  *)
(* is in flight and while time.sleep runs.                                 *)
(***************************************************************************)
EXTENDS Integers, Sequences, FiniteSets, TLC

\* ------------------------------------------------------------------ bounds
\* longest time one poll may be in flight, in time units
MaxPollDur == 15
\* reading of the clock when the operation is invoked
StartClock == 7
\* HTTP status codes session.request may hand back (1xx never reaches the
\* caller)
MinStatus == 200
MaxStatus == 599
\* _validate_inputs is applied to scripts of 0..MaxBody characters between
\* 0..MaxPad whitespace characters on either side
MaxBody == 11
MaxPad == 2
\* the client is constructed with one of MaxKeys explicit keys and one of
\* MaxKeys values of the environment variable (or without either)
MaxKeys == 6
\* _generate_filename is applied to creator names of up to MaxName characters
MaxName == 2
\* while two workflows run side by side the clock advances by up to MaxTicks
\* seconds, and each video arrives in NumChunks chunks
MaxTicks == 2
NumChunks == 2

\* ------------------------------------------------------- program constants
DefaultTimeout == 300
DefaultPollInterval == 10
MinScriptLen == 10
MinCreatorLen == 1
FirstErrorStatus == 400
LastErrorStatus == 599

None == "<None>"

Range(s) == {s[i] : i \in 1..Len(s)}

\* ------------------------------------------------------------- characters
Upper == {"F", "H", "D", "K", "J", "A"}
ToLowerChar(c) ==
    CASE c = "F" -> "f" [] c = "H" -> "h" [] c = "D" -> "d"
      [] c = "K" -> "k" [] c = "J" -> "j" [] c = "A" -> "a"
      [] OTHER -> c

\* str.lower()
Lower(s) == [i \in 1..Len(s) |-> ToLowerChar(s[i])]

\* characters str.strip() removes
Whitespace == {" ", "\t", "\n"}

RECURSIVE LStrip(_)
LStrip(s) == IF s # <<>> /\ Head(s) \in Whitespace THEN LStrip(Tail(s)) ELSE s

RECURSIVE RStrip(_)
RStrip(s) ==
    IF s # <<>> /\ s[Len(s)] \in Whitespace
    THEN RStrip(SubSeq(s, 1, Len(s) - 1)) ELSE s

\* str.strip()
Strip(s) == RStrip(LStrip(s))

\* str.isalnum() on one character: Unicode letters and digits, not only ASCII
AsciiAlnum == {"a", "b", "c", "d", "e", "f", "h", "i", "j", "k", "m", "n", "p", "s",
               "A", "D", "F", "H", "J", "K",
               "0", "1", "2", "3", "4", "5", "6", "7", "8", "9"}
UnicodeAlnum == {"é"}
IsAlnum(c) == c \in AsciiAlnum \cup UnicodeAlnum

\* ---------------------------------------------------------------- dicts
\* dict.get(k, default)
Get(d, k, default) == IF k \in DOMAIN d THEN d[k] ELSE default

\* Python truthiness of None / str values
Truthy(v) == v # None /\ v # ""

EmptyDict == [k \in {} |-> None]

RECURSIVE JoinItems(_, _, _, _)
\* the items of dict d with keys ks, each key and value between quotes q
JoinItems(d, ks, q, first) ==
    IF ks = {} THEN ""
    ELSE LET k == CHOOSE x \in ks : TRUE
         IN (IF first THEN "" ELSE ", ") \o q \o k \o q \o ": " \o q \o d[k] \o q
              \o JoinItems(d, ks \ {k}, q, FALSE)

\* str() of a dict of strings, as an f-string formats it: {'k': 'v'}
DictStr(d) == "{" \o JoinItems(d, DOMAIN d, "'", TRUE) \o "}"

\* the JSON text a server sends for a dict of strings: {"k": "v"}
JsonText(d) == "{" \o JoinItems(d, DOMAIN d, "\"", TRUE) \o "}"

\* ------------------------------------------------------------- exceptions
CaptionsAPIError(msg) == [ok |-> FALSE, exc |-> "CaptionsAPIError", msg |-> msg]
OtherError(kind, msg) == [ok |-> FALSE, exc |-> kind, msg |-> msg]
Return(v) == [ok |-> TRUE, value |-> v]

\* ------------------------------------------------------- HTTP responses
\* What session.request produces: either a transport-level failure
\* (requests.exceptions.RequestException: DNS, connection, timeout) or a
\* response with a status code and a body.  body is the parsed JSON when
\* parseable; jsonErr is the class of the exception response.json() raises
\* when it is not (requests.exceptions.JSONDecodeError, a RequestException,
\* in requests >= 2.27; a plain ValueError before).
TransportFailure(detail) == [kind |-> "transport", detail |-> detail]
HttpResponse(status, parseable, body, text, jsonErr) ==
    [kind |-> "http", status |-> status, parseable |-> parseable,
     body |-> body, text |-> text, jsonErr |-> jsonErr]

\* requests.Response.raise_for_status: HTTPError for 4xx and 5xx
RaisesForStatus(status) == status >= FirstErrorStatus /\ status <= LastErrorStatus

\* str(e) of the HTTPError raise_for_status builds: it starts with the status
HTTPErrorStr(status) == ToString(status)

\* the messages of 402 and 429 are exchanged
MakeRequestSwapped(resp) ==
    IF resp.kind = "transport"
    THEN CaptionsAPIError(<<"API request failed: ", resp.detail>>)
    ELSE IF RaisesForStatus(resp.status)
    THEN CASE resp.status = 401 ->
                CaptionsAPIError(<<"Invalid API key. Please check your credentials.">>)
           [] resp.status = 402 ->
                CaptionsAPIError(<<"Rate limit exceeded. Please wait before making another request.">>)
           [] resp.status = 429 ->
                CaptionsAPIError(<<"Insufficient credits. Please purchase more credits.">>)
           [] resp.status = 400 ->
                CaptionsAPIError(<<"Bad request: ", resp.text>>)
           [] OTHER ->
                CaptionsAPIError(<<"API request failed: ", HTTPErrorStr(resp.status)>>)
    ELSE IF resp.parseable
    THEN Return(resp.body)
    ELSE IF resp.jsonErr = "RequestException"
    THEN CaptionsAPIError(<<"API request failed: ", "Expecting value">>)
    ELSE OtherError(resp.jsonErr, <<"Expecting value">>)

\* CaptionsAPIClient._make_request
MakeRequest(resp) ==
    IF resp.kind = "transport"
    THEN CaptionsAPIError(<<"API request failed: ", resp.detail>>)
    ELSE IF RaisesForStatus(resp.status)
    THEN CASE resp.status = 401 ->
                CaptionsAPIError(<<"Invalid API key. Please check your credentials.">>)
           [] resp.status = 429 ->
                CaptionsAPIError(<<"Rate limit exceeded. Please wait before making another request.">>)
           [] resp.status = 402 ->
                CaptionsAPIError(<<"Insufficient credits. Please purchase more credits.">>)
           [] resp.status = 400 ->
                \* lines 76-81: the try raises the error with the parsed body
                \* (or the JSON error); the bare except catches either one
                \* and raises the error with the raw text
                LET attempt ==
                      IF resp.parseable
                      THEN CaptionsAPIError(<<"Bad request: ", DictStr(resp.body)>>)
                      ELSE OtherError(resp.jsonErr, <<"Expecting value">>)
                IN  IF ~attempt.ok
                    THEN CaptionsAPIError(<<"Bad request: ", resp.text>>)
                    ELSE attempt
           [] OTHER ->
                CaptionsAPIError(<<"API request failed: ", HTTPErrorStr(resp.status)>>)
    ELSE IF resp.parseable
    THEN Return(resp.body)
    ELSE IF resp.jsonErr = "RequestException"
    THEN CaptionsAPIError(<<"API request failed: ", "Expecting value">>)
    ELSE OtherError(resp.jsonErr, <<"Expecting value">>)

\* ---------------------------------------------------- VideoGenerator
\* the script is measured without trimming it
ValidateInputsUntrimmed(script, creator_name, resolution) ==
    IF script = <<>> \/ Len(script) < MinScriptLen
    THEN CaptionsAPIError(<<"Script must be at least 10 characters long">>)
    ELSE IF creator_name = <<>> \/ Len(Strip(creator_name)) < MinCreatorLen
    THEN CaptionsAPIError(<<"Creator name is required">>)
    ELSE IF Lower(resolution) \notin {<<"f", "h", "d">>, <<"h", "d">>, <<"4", "k">>}
    THEN CaptionsAPIError(<<"Invalid resolution. Must be one of: ", "fhd, hd, 4k">>)
    ELSE Return(None)

\* VideoGenerator._validate_inputs
ValidateInputs(script, creator_name, resolution) ==
    IF script = <<>> \/ Len(Strip(script)) < MinScriptLen
    THEN CaptionsAPIError(<<"Script must be at least 10 characters long">>)
    ELSE IF creator_name = <<>> \/ Len(Strip(creator_name)) < MinCreatorLen
    THEN CaptionsAPIError(<<"Creator name is required">>)
    ELSE IF Lower(resolution) \notin {<<"f", "h", "d">>, <<"h", "d">>, <<"4", "k">>}
    THEN CaptionsAPIError(<<"Invalid resolution. Must be one of: ", "fhd, hd, 4k">>)
    ELSE Return(None)

Digit(d) ==
    CASE d = 0 -> "0" [] d = 1 -> "1" [] d = 2 -> "2" [] d = 3 -> "3" [] d = 4 -> "4"
      [] d = 5 -> "5" [] d = 6 -> "6" [] d = 7 -> "7" [] d = 8 -> "8" [] d = 9 -> "9"
TwoDigits(n) == <<Digit((n \div 10) % 10), Digit(n % 10)>>

\* datetime.now().strftime("%Y%m%d_%H%M%S"); the clock counts the seconds of
\* one day, 2026-01-01
Strftime(t) ==
    <<"2", "0", "2", "6", "0", "1", "0", "1", "_">>
      \o TwoDigits(t \div 3600) \o TwoDigits((t \div 60) % 60) \o TwoDigits(t % 60)

\* a character that is not allowed is replaced by "_"
GenerateFilenameEscaped(creator_name, resolution, t) ==
    LET filename == <<"a", "i", "_", "a", "d", "_">> \o creator_name \o <<"_">>
                      \o resolution \o <<"_">> \o Strftime(t) \o <<".", "m", "p", "4">>
        Keep(c) == IsAlnum(c) \/ c \in {".", "_", "-"}
    IN [i \in 1..Len(filename) |-> IF Keep(filename[i]) THEN filename[i] ELSE "_"]

\* VideoGenerator._generate_filename
GenerateFilename(creator_name, resolution, t) ==
    LET filename == <<"a", "i", "_", "a", "d", "_">> \o creator_name \o <<"_">>
                      \o resolution \o <<"_">> \o Strftime(t) \o <<".", "m", "p", "4">>
        Keep(c) == IsAlnum(c) \/ c \in {".", "_", "-"}
    IN SelectSeq(filename, Keep)

\* os.path.join(output_dir, filename)
PathJoin(dir, name) == [dir |-> dir, name |-> name]

\* ------------------------------------------------- CaptionsAPIClient
PlaceholderMedia == "https://images.unsplash.com/photo-1611224923853-80b023f02d71?w=800&h=600&fit=crop"

\* A list-or-None argument is [none |-> BOOLEAN, items |-> sequence].
NoList == [none |-> TRUE, items |-> <<>>]
List(items) == [none |-> FALSE, items |-> items]

\* create_ai_ad, lines 102-117: the payload it posts.  No value of the four
\* fixed keys is None here, so the None filter of line 117 removes nothing.
\* the placeholder stands in for a missing list only, an empty list is sent
PayloadEmptyListKept(script, creator_name, media_urls, resolution, webhook_id) ==
    LET media == IF media_urls.none THEN <<PlaceholderMedia>> ELSE media_urls.items
        base == ("script" :> script) @@ ("creatorName" :> creator_name)
                  @@ ("mediaUrls" :> media) @@ ("resolution" :> resolution)
    IN IF Truthy(webhook_id) THEN base @@ ("webhookId" :> webhook_id) ELSE base

Payload(script, creator_name, media_urls, resolution, webhook_id) ==
    LET media == IF media_urls.none \/ media_urls.items = <<>>
                 THEN <<PlaceholderMedia>> ELSE media_urls.items
        base == ("script" :> script) @@ ("creatorName" :> creator_name)
                  @@ ("mediaUrls" :> media) @@ ("resolution" :> resolution)
    IN IF Truthy(webhook_id) THEN base @@ ("webhookId" :> webhook_id) ELSE base

\* create_ai_ad, lines 121-128: from the outcome of _make_request to the
\* operation id
\* the environment variable wins over the explicit key
ClientInitEnvFirst(api_key, env) ==
    LET key == IF Truthy(env) THEN env ELSE api_key
    IN  IF ~Truthy(key)
        THEN CaptionsAPIError(<<"API key is required. Set CAPTIONS_API_KEY environment variable or pass api_key parameter.">>)
        ELSE Return([api_key |-> key,
                     headers |-> ("x-api-key" :> key)
                                   @@ ("Content-Type" :> "application/json")
                                   @@ ("User-Agent" :> "CaptionsAI-Python-Client/1.0")])

\* CaptionsAPIClient.__init__; env is os.getenv("CAPTIONS_API_KEY"), None
\* when the variable is not set.  The value returned is the client.
ClientInit(api_key, env) ==
    LET key == IF Truthy(api_key) THEN api_key ELSE env
    IN  IF ~Truthy(key)
        THEN CaptionsAPIError(<<"API key is required. Set CAPTIONS_API_KEY environment variable or pass api_key parameter.">>)
        ELSE Return([api_key |-> key,
                     headers |-> ("x-api-key" :> key)
                                   @@ ("Content-Type" :> "application/json")
                                   @@ ("User-Agent" :> "CaptionsAI-Python-Client/1.0")])

\* the operation id of the response is returned without looking at it
CreateAiAdResultUnchecked(r) ==
    IF ~r.ok THEN r
    ELSE Return(Get(r.value, "operationId", None))

CreateAiAdResult(r) ==
    IF ~r.ok THEN r
    ELSE LET operation_id == Get(r.value, "operationId", None)
         IN IF ~Truthy(operation_id)
            THEN CaptionsAPIError(<<"No operation ID received from API">>)
            ELSE Return(operation_id)

\* the timeout check allows twice the budget
TimedOutDouble(t, start, limit) == t - start > 2 * limit

\* the timeout check one time unit too lenient
TimedOutLate(t, start, limit) == t - start > limit + 1

\* wait_for_completion, line 167
\* the budget counts as exceeded as soon as it is reached
TimedOutAtLimit(t, start, limit) == t - start >= limit

TimedOut(t, start, limit) == t - start > limit

\* wait_for_completion, line 168
TimeoutError(operation_id, limit) ==
    CaptionsAPIError(<<"Job ", operation_id, " timed out after ", ToString(limit), " seconds">>)

NonTerminalStates == {"PENDING", "PROCESSING", "QUEUED"}

Sleep == [ok |-> TRUE, sleep |-> TRUE]

\* a COMPLETE status without URL is polled again instead of being fatal
WaitDispatchRetryComplete(status, operation_id) ==
    LET state == Get(status, "state", "unknown")
    IN IF state = "COMPLETE"
       THEN LET video_url == Get(status, "url", None)
            IN IF Truthy(video_url) THEN Return(video_url) ELSE Sleep
       ELSE IF state = "FAILED"
       THEN CaptionsAPIError(<<"Job ", operation_id, " failed: ",
                               Get(status, "error", "Unknown error")>>)
       ELSE IF state \in NonTerminalStates
       THEN Sleep
       ELSE CaptionsAPIError(<<"Unknown job state: ", state>>)

\* the upstream error detail of a FAILED status is dropped
WaitDispatchNoDetail(status, operation_id) ==
    LET state == Get(status, "state", "unknown")
    IN IF state = "COMPLETE"
       THEN LET video_url == Get(status, "url", None)
            IN IF Truthy(video_url) THEN Return(video_url)
               ELSE CaptionsAPIError(<<"Job completed but no video URL found">>)
       ELSE IF state = "FAILED"
       THEN CaptionsAPIError(<<"Job ", operation_id, " failed: ", "Unknown error">>)
       ELSE IF state \in NonTerminalStates
       THEN Sleep
       ELSE CaptionsAPIError(<<"Unknown job state: ", state>>)

\* an unrecognized state is taken for a non-terminal one
WaitDispatchGuess(status, operation_id) ==
    LET state == Get(status, "state", "unknown")
    IN IF state = "COMPLETE"
       THEN LET video_url == Get(status, "url", None)
            IN IF Truthy(video_url) THEN Return(video_url)
               ELSE CaptionsAPIError(<<"Job completed but no video URL found">>)
       ELSE IF state = "FAILED"
       THEN CaptionsAPIError(<<"Job ", operation_id, " failed: ",
                               Get(status, "error", "Unknown error")>>)
       ELSE Sleep

\* wait_for_completion, lines 171-192: what one iteration does with the
\* status a poll returned: return the URL, raise, or sleep and loop
WaitDispatch(status, operation_id) ==
    LET state == Get(status, "state", "unknown")
    IN IF state = "COMPLETE"
       THEN LET video_url == Get(status, "url", None)
            IN IF Truthy(video_url) THEN Return(video_url)
               ELSE CaptionsAPIError(<<"Job completed but no video URL found">>)
       ELSE IF state = "FAILED"
       THEN CaptionsAPIError(<<"Job ", operation_id, " failed: ",
                               Get(status, "error", "Unknown error")>>)
       ELSE IF state \in NonTerminalStates
       THEN Sleep
       ELSE CaptionsAPIError(<<"Unknown job state: ", state>>)

\* a rate-limited poll is silently retried after the poll interval
PollOutcomeRetry429(resp, operation_id) ==
    IF resp.kind = "http" /\ resp.status = 429 THEN Sleep
    ELSE LET r == MakeRequest(resp)
         IN IF r.ok THEN WaitDispatch(r.value, operation_id) ELSE r

\* get_job_status followed by the dispatch: an error of _make_request
\* propagates out of wait_for_completion
PollOutcome(resp, operation_id) ==
    LET r == MakeRequest(resp)
    IN IF r.ok THEN WaitDispatch(r.value, operation_id) ELSE r

IsSleep(o) == o.ok /\ "sleep" \in DOMAIN o

\* the poll was answered with a status whose state is PENDING, PROCESSING or
\* QUEUED
ReportsNonTerminal(resp) ==
    /\ MakeRequest(resp).ok
    /\ "state" \in DOMAIN MakeRequest(resp).value
    /\ MakeRequest(resp).value["state"] \in {"PENDING", "PROCESSING", "QUEUED"}

\* ------------------------------------------------------------ inputs
Jane == <<"J", "a", "n", "e", "'", "s", " ", "A", "d", "!">>
GoodScript == <<"b", "i", "k", "e", " ", "s", "a", "l", "e", "!">>
\* raw length 11, trimmed length 9
PaddedShortScript == <<" ", "b", "i", "k", "e", " ", "s", "a", "l", "e", "\n">>

BaseArgs ==
    [script |-> GoodScript, creator_name |-> Jane, media_urls |-> NoList,
     resolution |-> <<"f", "h", "d">>, webhook_id |-> None,
     output_dir |-> "./generated_videos", filename |-> <<>>]

\* a call that supplies every optional argument
FullArgs ==
    [script |-> GoodScript, creator_name |-> <<"k", "i", "m">>,
     media_urls |-> List(<<"https://m/1.png", "https://m/2.png">>),
     resolution |-> <<"4", "k">>, webhook_id |-> "wh1",
     output_dir |-> "/tmp/out", filename |-> <<"a", "d", ".", "m", "p", "4">>]

\* calls of generate_ad_video: the base call, calls differing from it in one
\* argument, and the full call (filename <<>> stands for a filename that is
\* not supplied, None or "")
GenerateArgs ==
    {BaseArgs, FullArgs}
      \cup {[BaseArgs EXCEPT !.script = s] : s \in {<<>>, PaddedShortScript}}
      \cup {[BaseArgs EXCEPT !.creator_name = c] : c \in {<<>>, <<" ">>}}
      \cup {[BaseArgs EXCEPT !.resolution = r] : r \in {<<"F", "H", "D">>, <<"s", "d">>}}
      \cup {[BaseArgs EXCEPT !.media_urls = List(<<>>)]}

\* calls of wait_for_completion made directly by a library user
TimeoutArgs == {0, 1, 25}
PollIntervalArgs == {1, 10}
WaitArgs ==
    [operation_id : {"op123"}, timeout : TimeoutArgs, poll_interval : PollIntervalArgs]

\* time a poll may be in flight
PollDurs == {0, MaxPollDur}

VideoUrl == "https://x/video.mp4"

ErrorStatuses == {400, 401, 402, 404, 429, 500}

\* responses of the upstream with a status that raise_for_status rejects
ErrorResponses ==
    {HttpResponse(st, FALSE, EmptyDict, "<html>error</html>", "RequestException") :
        st \in ErrorStatuses}
      \cup {HttpResponse(400, TRUE, "detail" :> "bad script",
                         JsonText("detail" :> "bad script"), "RequestException")}

UnparseableResponses ==
    {HttpResponse(200, FALSE, EmptyDict, "not json", je) :
        je \in {"RequestException", "ValueError"}}

SubmitBodies ==
    {"operationId" :> "op123", "operationId" :> "", "operationId" :> None, EmptyDict}

SubmitResponses ==
    {TransportFailure("connection refused")}
      \cup ErrorResponses \cup UnparseableResponses
      \cup {HttpResponse(200, TRUE, b, "json", "RequestException") : b \in SubmitBodies}
      \cup {HttpResponse(304, TRUE, "operationId" :> "op123", "json", "RequestException")}

PollBodies ==
    {"state" :> "PENDING", "state" :> "PROCESSING", "state" :> "QUEUED",
     ("state" :> "COMPLETE") @@ ("url" :> VideoUrl),
     "state" :> "COMPLETE",
     ("state" :> "COMPLETE") @@ ("url" :> ""),
     ("state" :> "COMPLETE") @@ ("url" :> None),
     ("state" :> "FAILED") @@ ("error" :> "bad media"),
     "state" :> "FAILED",
     "state" :> "WEIRD_STATE",
     "state" :> "complete",
     "state" :> None,
     EmptyDict}

PollResponses ==
    {TransportFailure("connection reset")}
      \cup ErrorResponses \cup UnparseableResponses
      \cup {HttpResponse(200, TRUE, b, "json", "RequestException") : b \in PollBodies}
      \cup {HttpResponse(304, TRUE, b, "json", "RequestException") :
              b \in {"state" :> "PENDING", ("state" :> "COMPLETE") @@ ("url" :> VideoUrl)}}

\* what the list-creators endpoint can answer
ListResponses ==
    {TransportFailure("connection refused")}
      \cup ErrorResponses \cup UnparseableResponses
      \cup {HttpResponse(200, TRUE, "supportedCreators" :> <<"Kate", "Kira">>, "json",
                         "RequestException")}

\* what session.get(url, stream=True) and the chunk loop can meet: a transport
\* failure, a status, and a stream that breaks after some chunks were written
DownloadResponses ==
    {[kind |-> "transport", status |-> 0, broken |-> FALSE]}
      \cup {[kind |-> "http", status |-> st, broken |-> FALSE] :
              st \in {200, 304, 401, 404, 500}}
      \cup {[kind |-> "http", status |-> 200, broken |-> TRUE]}

\* ------------------------------------------------------------- state
VARIABLES
    entry,         \* the public operation invoked: "generate", "wait" or "creators"
    args,          \* its arguments
    pc,            \* position in the code
    now,           \* time.time() / datetime.now()
    start_time,    \* wait_for_completion: start_time
    timeout,       \* wait_for_completion: timeout
    poll_interval, \* wait_for_completion: poll_interval
    operation_id,  \* the handle create_ai_ad returned / wait_for_completion polls
    output_path,   \* generate_ad_video: output_path
    video_url,     \* generate_ad_video: video_url
    calls,         \* the network calls issued so far, in order
    sleeps,        \* the arguments of the time.sleep calls so far, in order
    lastResp,      \* the response the last finished network call received
    status,        \* wait_for_completion: status, what get_job_status returned last
    lastPollDur,   \* time the last finished poll was in flight
    nonTerminal,   \* number of polls that reported a non-terminal state
    dirs,          \* directories created
    files,         \* files written
    waited,        \* outcome of wait_for_completion
    result         \* outcome of the operation invoked

vars == <<entry, args, pc, now, start_time, timeout, poll_interval, operation_id,
          output_path, video_url, calls, sleeps, lastResp, status, lastPollDur,
          nonTerminal, dirs, files, waited, result>>

Pending == [ok |-> FALSE, exc |-> "<pending>", msg |-> <<>>]
NoResp == [kind |-> "none"]
NoPath == PathJoin("", <<>>)
\* the local variable status before the first poll returned
NoStatus == "<unbound>" :> None

Init ==
    /\ entry \in {"generate", "wait", "creators"}
    /\ args \in CASE entry = "generate" -> GenerateArgs
                  [] entry = "wait" -> WaitArgs
                  [] entry = "creators" -> {EmptyDict}
    /\ pc = CASE entry = "generate" -> "validate"
              [] entry = "wait" -> "wait_start"
              [] entry = "creators" -> "list"
    /\ now = StartClock
    /\ start_time = 0
    /\ timeout = 0
    /\ poll_interval = 0
    /\ operation_id = IF entry = "wait" THEN args.operation_id ELSE None
    /\ output_path = NoPath
    /\ video_url = None
    /\ calls = <<>>
    /\ sleeps = <<>>
    /\ lastResp = NoResp
    /\ status = NoStatus
    /\ lastPollDur = 0
    /\ nonTerminal = 0
    /\ dirs = {}
    /\ files = {}
    /\ waited = Pending
    /\ result = Pending

\* ------------------------------------------------- generate_ad_video
\* the output directory is created before the inputs are validated
ValidateAfterMakeDirs ==
    /\ pc = "validate"
    /\ dirs' = dirs \cup {args.output_dir}
    /\ LET r == ValidateInputs(args.script, args.creator_name, args.resolution)
       IN IF r.ok
          THEN pc' = "makedirs" /\ result' = result
          ELSE pc' = "done" /\ result' = r
    /\ UNCHANGED <<entry, args, now, start_time, timeout, poll_interval, operation_id,
                   output_path, video_url, calls, sleeps, lastResp, status, lastPollDur,
                   nonTerminal, files, waited>>

\* line 59
Validate ==
    /\ pc = "validate"
    /\ LET r == ValidateInputs(args.script, args.creator_name, args.resolution)
       IN IF r.ok
          THEN pc' = "makedirs" /\ result' = result
          ELSE pc' = "done" /\ result' = r
    /\ UNCHANGED <<entry, args, now, start_time, timeout, poll_interval, operation_id,
                   output_path, video_url, calls, sleeps, lastResp, status, lastPollDur, nonTerminal,
                   dirs, files, waited>>

\* line 62
MakeDirs ==
    /\ pc = "makedirs"
    /\ dirs' = dirs \cup {args.output_dir}
    /\ pc' = "filename"
    /\ UNCHANGED <<entry, args, now, start_time, timeout, poll_interval, operation_id,
                   output_path, video_url, calls, sleeps, lastResp, status, lastPollDur, nonTerminal,
                   files, waited, result>>

\* lines 65-68
ResolveFilename ==
    /\ pc = "filename"
    /\ LET filename == IF args.filename = <<>>
                       THEN GenerateFilename(args.creator_name, args.resolution, now)
                       ELSE args.filename
       IN output_path' = PathJoin(args.output_dir, filename)
    /\ pc' = "submit"
    /\ UNCHANGED <<entry, args, now, start_time, timeout, poll_interval, operation_id,
                   video_url, calls, sleeps, lastResp, status, lastPollDur, nonTerminal, dirs, files,
                   waited, result>>

\* line 72, create_ai_ad up to the request of line 121
SubmitIssue ==
    /\ pc = "submit"
    /\ calls' = Append(calls, [op |-> "submit",
                               payload |-> Payload(args.script, args.creator_name,
                                                   args.media_urls, args.resolution,
                                                   args.webhook_id)])
    /\ pc' = "submitting"
    /\ UNCHANGED <<entry, args, now, start_time, timeout, poll_interval, operation_id,
                   output_path, video_url, sleeps, lastResp, status, lastPollDur, nonTerminal, dirs, files,
                   waited, result>>

\* create_ai_ad from the response on; an error leaves generate_ad_video
\* through the except clause of lines 83-85, which re-raises it
SubmitReturn ==
    /\ pc = "submitting"
    /\ \E resp \in SubmitResponses :
         /\ lastResp' = resp
         /\ LET r == CreateAiAdResult(MakeRequest(resp))
            IN IF r.ok
               THEN operation_id' = r.value /\ pc' = "wait_start" /\ result' = result
               ELSE operation_id' = operation_id /\ pc' = "done" /\ result' = r
    /\ UNCHANGED <<entry, args, now, start_time, timeout, poll_interval, output_path,
                   video_url, calls, sleeps, status, lastPollDur, nonTerminal, dirs,
                   files, waited>>

\* ------------------------------------------------- wait_for_completion
\* line 164; generate_ad_video calls with the default timeout and interval
\* (line 75), a direct caller passes its own
WaitStart ==
    /\ pc = "wait_start"
    /\ start_time' = now
    /\ timeout' = IF entry = "generate" THEN DefaultTimeout ELSE args.timeout
    /\ poll_interval' = IF entry = "generate" THEN DefaultPollInterval
                        ELSE args.poll_interval
    /\ pc' = "loop"
    /\ UNCHANGED <<entry, args, now, operation_id, output_path, video_url, calls,
                   sleeps, lastResp, status, lastPollDur, nonTerminal, dirs, files, waited, result>>

\* generate_ad_video swallows the error of the wait and downloads anyway
FinishWaitDownloadAnyway(r) ==
    /\ waited' = r
    /\ IF entry = "generate"
       THEN /\ video_url' = IF r.ok THEN r.value ELSE None
            /\ pc' = "download"
            /\ result' = result
       ELSE video_url' = video_url /\ pc' = "done" /\ result' = r

\* How wait_for_completion ends with outcome r: a direct call ends with r;
\* in generate_ad_video a returned URL goes on to the download (lines 75-78)
\* and an error is re-raised (lines 83-85).
FinishWait(r) ==
    /\ waited' = r
    /\ IF entry = "generate" /\ r.ok
       THEN video_url' = r.value /\ pc' = "download" /\ result' = result
       ELSE video_url' = video_url /\ pc' = "done" /\ result' = r

\* lines 167-168: the timeout check at the top of the loop fails
TimeoutRaise ==
    /\ pc = "loop"
    /\ TimedOut(now, start_time, timeout)
    /\ FinishWait(TimeoutError(operation_id, timeout))
    /\ UNCHANGED <<entry, args, now, start_time, timeout, poll_interval, operation_id,
                   output_path, calls, sleeps, lastResp, status, lastPollDur, nonTerminal, dirs, files>>

\* lines 167-170: the timeout check passes, get_job_status posts its request
\* the poll asks for the job of a handle of its own making
PollIssueOtherHandle ==
    /\ pc = "loop"
    /\ ~TimedOut(now, start_time, timeout)
    /\ calls' = Append(calls, [op |-> "poll", operationId |-> "latest"])
    /\ pc' = "polling"
    /\ UNCHANGED <<entry, args, now, start_time, timeout, poll_interval, operation_id,
                   output_path, video_url, sleeps, lastResp, status, lastPollDur, nonTerminal, dirs, files,
                   waited, result>>

PollIssue ==
    /\ pc = "loop"
    /\ ~TimedOut(now, start_time, timeout)
    /\ calls' = Append(calls, [op |-> "poll", operationId |-> operation_id])
    /\ pc' = "polling"
    /\ UNCHANGED <<entry, args, now, start_time, timeout, poll_interval, operation_id,
                   output_path, video_url, sleeps, lastResp, status, lastPollDur, nonTerminal, dirs, files,
                   waited, result>>

\* lines 170-192: the poll in flight returns after d time units and the
\* iteration dispatches on the status
PollReturn ==
    /\ pc = "polling"
    /\ \E resp \in PollResponses, d \in PollDurs :
         /\ now' = now + d
         /\ lastPollDur' = d
         /\ lastResp' = resp
         /\ status' = IF MakeRequest(resp).ok THEN MakeRequest(resp).value ELSE status
         /\ nonTerminal' = IF ReportsNonTerminal(resp) THEN nonTerminal + 1
                            ELSE nonTerminal
         /\ LET o == PollOutcome(resp, operation_id)
            IN IF IsSleep(o)
               THEN pc' = "sleep" /\ UNCHANGED <<video_url, waited, result>>
               ELSE FinishWait(o)
    /\ UNCHANGED <<entry, args, start_time, timeout, poll_interval, operation_id,
                   output_path, calls, sleeps, dirs, files>>

\* the sleep grows with every iteration (linear backoff)
SleepStepBackoff ==
    /\ pc = "sleep"
    /\ sleeps' = Append(sleeps, poll_interval * (Len(sleeps) + 1))
    /\ now' = now + poll_interval * (Len(sleeps) + 1)
    /\ pc' = "loop"
    /\ UNCHANGED <<entry, args, start_time, timeout, poll_interval, operation_id,
                   output_path, video_url, calls, lastResp, status, lastPollDur,
                   nonTerminal, dirs, files, waited, result>>

\* lines 188-189
SleepStep ==
    /\ pc = "sleep"
    /\ sleeps' = Append(sleeps, poll_interval)
    /\ now' = now + poll_interval
    /\ pc' = "loop"
    /\ UNCHANGED <<entry, args, start_time, timeout, poll_interval, operation_id,
                   output_path, video_url, calls, lastResp, status, lastPollDur, nonTerminal, dirs, files,
                   waited, result>>

\* ------------------------------------------------------ download_video
\* generate_ad_video line 78, download_video line 207: the GET is sent
DownloadIssue ==
    /\ pc = "download"
    /\ calls' = Append(calls, [op |-> "download", url |-> video_url,
                               path |-> output_path])
    /\ pc' = "downloading"
    /\ UNCHANGED <<entry, args, now, start_time, timeout, poll_interval, operation_id,
                   output_path, video_url, sleeps, lastResp, status, lastPollDur, nonTerminal, dirs, files,
                   waited, result>>

\* the download maps its failures like _make_request does
DownloadFailedMapped(detail) == CaptionsAPIError(<<"API request failed: ", detail>>)

DownloadFailed(detail) == CaptionsAPIError(<<"Failed to download video: ", detail>>)

\* download_video lines 207-221
DownloadReturn ==
    /\ pc = "downloading"
    /\ \E resp \in DownloadResponses :
         /\ lastResp' = resp
         /\ IF resp.kind = "transport"
            THEN /\ result' = DownloadFailed("connection reset")
                 /\ UNCHANGED <<dirs, files>>
            ELSE IF RaisesForStatus(resp.status)
            THEN /\ result' = DownloadFailed(HTTPErrorStr(resp.status))
                 /\ UNCHANGED <<dirs, files>>
            ELSE /\ dirs' = dirs \cup {output_path.dir}
                 /\ files' = files \cup {[path |-> output_path, complete |-> ~resp.broken]}
                 /\ result' = IF resp.broken THEN DownloadFailed("stream broken")
                              ELSE Return(output_path)
    /\ pc' = "done"
    /\ UNCHANGED <<entry, args, now, start_time, timeout, poll_interval, operation_id,
                   output_path, video_url, calls, sleeps, status, lastPollDur,
                   nonTerminal, waited>>

\* ----------------------------------------------------- list_creators
\* list_creators line 231: the request is sent
ListCreatorsIssue ==
    /\ pc = "list"
    /\ calls' = Append(calls, [op |-> "list"])
    /\ pc' = "listing"
    /\ UNCHANGED <<entry, args, now, start_time, timeout, poll_interval, operation_id,
                   output_path, video_url, sleeps, lastResp, status, lastPollDur,
                   nonTerminal, dirs, files, waited, result>>

\* list_creators line 231: what _make_request returns or raises is the outcome
ListCreatorsReturn ==
    /\ pc = "listing"
    /\ \E resp \in ListResponses :
         /\ lastResp' = resp
         /\ result' = MakeRequest(resp)
    /\ pc' = "done"
    /\ UNCHANGED <<entry, args, now, start_time, timeout, poll_interval, operation_id,
                   output_path, video_url, calls, sleeps, status, lastPollDur,
                   nonTerminal, dirs, files, waited>>

Next ==
    \/ Validate
    \/ MakeDirs
    \/ ResolveFilename
    \/ SubmitIssue
    \/ SubmitReturn
    \/ WaitStart
    \/ TimeoutRaise
    \/ PollIssue
    \/ PollReturn
    \/ SleepStep
    \/ DownloadIssue
    \/ DownloadReturn
    \/ ListCreatorsIssue
    \/ ListCreatorsReturn

Spec == Init /\ [][Next]_vars

\* Every network call that was sent returns, and the thread keeps running.
FairSpec == Spec /\ WF_vars(Next)

\* ------------------------------------------------------ _make_request
\* _make_request on its own, over every status code
AnyResponses ==
    {TransportFailure("name resolution failed")}
      \cup {HttpResponse(st, p, IF p THEN "k" :> "v" ELSE EmptyDict,
                         IF p THEN JsonText("k" :> "v") ELSE "raw text", je) :
              st \in MinStatus..MaxStatus, p \in BOOLEAN,
              je \in {"RequestException", "ValueError"}}

ReqInit ==
    /\ entry = "request"
    /\ args = EmptyDict
    /\ pc = "request"
    /\ now = StartClock
    /\ start_time = 0
    /\ timeout = 0
    /\ poll_interval = 0
    /\ operation_id = None
    /\ output_path = NoPath
    /\ video_url = None
    /\ calls = <<>>
    /\ sleeps = <<>>
    /\ lastResp = NoResp
    /\ status = NoStatus
    /\ lastPollDur = 0
    /\ nonTerminal = 0
    /\ dirs = {}
    /\ files = {}
    /\ waited = Pending
    /\ result = Pending

\* lines 63-85: session.request answers with resp
MakeRequestCall ==
    /\ pc = "request"
    /\ \E resp \in AnyResponses :
         /\ lastResp' = resp
         /\ result' = MakeRequest(resp)
    /\ calls' = Append(calls, [op |-> "request"])
    /\ pc' = "done"
    /\ UNCHANGED <<entry, args, now, start_time, timeout, poll_interval, operation_id,
                   output_path, video_url, sleeps, status, lastPollDur, nonTerminal,
                   dirs, files, waited>>

ReqNext == MakeRequestCall

ReqSpec == ReqInit /\ [][ReqNext]_vars

TypeOK ==
    /\ entry \in {"generate", "wait", "creators", "request"}
    /\ pc \in {"request", "list", "listing", "validate", "makedirs", "filename", "submit", "submitting", "wait_start",
               "loop", "polling", "sleep", "download", "downloading", "done"}
    /\ now \in Nat /\ start_time \in Nat /\ nonTerminal \in Nat
    /\ result.ok \in BOOLEAN /\ waited.ok \in BOOLEAN

\* the variables a call of one pure function leaves at their initial values
IdleInit ==
    /\ now = StartClock
    /\ start_time = 0
    /\ timeout = 0
    /\ poll_interval = 0
    /\ operation_id = None
    /\ output_path = NoPath
    /\ video_url = None
    /\ calls = <<>>
    /\ sleeps = <<>>
    /\ lastResp = NoResp
    /\ status = NoStatus
    /\ lastPollDur = 0
    /\ nonTerminal = 0
    /\ dirs = {}
    /\ files = {}
    /\ waited = Pending
    /\ result = Pending

\* ----------------------------------------------------- _validate_inputs
\* _validate_inputs on its own, over scripts, creator names and resolutions
Pad(k) == [i \in 1..k |-> IF i % 2 = 1 THEN " " ELSE "\n"]
\* n characters that neither start nor end with whitespace; spaced bodies
\* have whitespace inside
Body(n, spaced) ==
    [i \in 1..n |-> IF spaced /\ i > 1 /\ i < n /\ i % 2 = 0 THEN " " ELSE "b"]
ValScripts ==
    {Pad(l) \o Body(n, sp) \o Pad(r) :
        l \in 0..MaxPad, r \in 0..MaxPad, n \in 0..MaxBody, sp \in BOOLEAN}
ValCreators == {<<>>, <<" ">>, <<"\t", " ">>, <<"k">>, <<" ", "k", " ">>, Jane}
ValResolutions ==
    {<<"f", "h", "d">>, <<"F", "H", "D">>, <<"F", "h", "d">>, <<"f", "H", "d">>,
     <<"h", "d">>, <<"H", "D">>, <<"h", "D">>, <<"4", "k">>, <<"4", "K">>,
     <<"s", "d">>, <<>>, <<"f", "h">>, <<"f", "h", "d", "d">>, <<" ", "f", "h", "d">>,
     <<"4", "k", " ">>, <<"d", "h", "f">>}

ValInit ==
    /\ entry = "validate_inputs"
    /\ args \in [script : ValScripts, creator_name : ValCreators,
                 resolution : ValResolutions]
    /\ pc = "call"
    /\ IdleInit

\* lines 87-100
ValidateInputsCall ==
    /\ entry = "validate_inputs"
    /\ pc = "call"
    /\ result' = ValidateInputs(args.script, args.creator_name, args.resolution)
    /\ pc' = "done"
    /\ UNCHANGED <<entry, args, now, start_time, timeout, poll_interval, operation_id,
                   output_path, video_url, calls, sleeps, lastResp, status, lastPollDur,
                   nonTerminal, dirs, files, waited>>

ValNext == ValidateInputsCall

ValSpec == ValInit /\ [][ValNext]_vars

\* ------------------------------------------- CaptionsAPIClient.__init__
\* the constructor on its own: the api_key argument (None when it is not
\* passed) and the value of the environment variable
ExplicitKeys == {None, ""} \cup {"key" \o ToString(i) : i \in 1..MaxKeys}
AmbientKeys == {None, ""} \cup {"env" \o ToString(i) : i \in 1..MaxKeys}

CtorInit ==
    /\ entry = "construct"
    /\ args \in [api_key : ExplicitKeys, env : AmbientKeys]
    /\ pc = "call"
    /\ IdleInit

\* lines 30-46
ClientInitCall ==
    /\ entry = "construct"
    /\ pc = "call"
    /\ result' = ClientInit(args.api_key, args.env)
    /\ pc' = "done"
    /\ UNCHANGED <<entry, args, now, start_time, timeout, poll_interval, operation_id,
                   output_path, video_url, calls, sleeps, lastResp, status, lastPollDur,
                   nonTerminal, dirs, files, waited>>

CtorNext == ClientInitCall

CtorSpec == CtorInit /\ [][CtorNext]_vars

\* --------------------------------------------------- _generate_filename
\* _generate_filename on its own, over creator names and resolutions made of
\* letters, digits, punctuation, whitespace, a path separator and a
\* non-ASCII letter
NameChars == {"a", "K", "9", "é", "'", " ", "!", "/", ".", "-", "_"}
FileCreators == UNION {[1..n -> NameChars] : n \in 0..MaxName}
FileResolutions == {<<"f", "h", "d">>, <<"4", "K">>, <<".", ".", "/">>, <<"é">>}

FileInit ==
    /\ entry = "generate_filename"
    /\ args \in [creator_name : FileCreators, resolution : FileResolutions]
    /\ pc = "call"
    /\ IdleInit

\* lines 107-118
GenerateFilenameCall ==
    /\ entry = "generate_filename"
    /\ pc = "call"
    /\ result' = Return(GenerateFilename(args.creator_name, args.resolution, now))
    /\ pc' = "done"
    /\ UNCHANGED <<entry, args, now, start_time, timeout, poll_interval, operation_id,
                   output_path, video_url, calls, sleeps, lastResp, status, lastPollDur,
                   nonTerminal, dirs, files, waited>>

FileNext == GenerateFilenameCall

FileSpec == FileInit /\ [][FileNext]_vars

\* ------------------------------------- two generate_ad_video side by side
\* Two VideoGenerator objects, each running generate_ad_video in a thread of
\* its own.  Here args, pc, operation_id, output_path, video_url and result
\* hold one value per instance, and files maps a path to the content of the
\* file: the sequence of its chunks, each named by the job whose video it
\* belongs to (0 for a hole left by a write past the end).
Inst == {1, 2}
ConcArgs == {BaseArgs, [BaseArgs EXCEPT !.creator_name = <<"k", "i", "m">>]}
OperationIdOf(i) == "op" \o ToString(i)
VideoUrlOf(i) == "https://cdn/" \o ToString(i) \o ".mp4"
\* what the download of instance i's video streams
VideoOf(i) == [k \in 1..NumChunks |-> i]
\* f.write at offset k of a file opened with 'wb'
WriteAt(content, k, v) ==
    [j \in 1..(IF Len(content) > k THEN Len(content) ELSE k) |->
        IF j = k THEN v ELSE IF j <= Len(content) THEN content[j] ELSE 0]

concIdle == <<entry, start_time, timeout, poll_interval, calls, sleeps, lastResp,
              status, lastPollDur, nonTerminal, waited>>

ConcInit ==
    /\ entry = "concurrent"
    /\ args \in [Inst -> ConcArgs]
    /\ pc = [i \in Inst |-> "validate"]
    /\ now = StartClock
    /\ start_time = 0
    /\ timeout = 0
    /\ poll_interval = 0
    /\ operation_id = [i \in Inst |-> None]
    /\ output_path = [i \in Inst |-> NoPath]
    /\ video_url = [i \in Inst |-> None]
    /\ calls = <<>>
    /\ sleeps = <<>>
    /\ lastResp = NoResp
    /\ status = NoStatus
    /\ lastPollDur = 0
    /\ nonTerminal = 0
    /\ dirs = {}
    /\ files = EmptyDict
    /\ waited = Pending
    /\ result = [i \in Inst |-> Pending]

\* time passes
Tick ==
    /\ now < StartClock + MaxTicks
    /\ now' = now + 1
    /\ UNCHANGED <<concIdle, args, pc, operation_id, output_path, video_url, dirs,
                   files, result>>

\* video_generator.py lines 58-62: validation, then os.makedirs(output_dir)
ConcPrepare(i) ==
    /\ pc[i] = "validate"
    /\ LET r == ValidateInputs(args[i].script, args[i].creator_name, args[i].resolution)
       IN IF r.ok
          THEN /\ dirs' = dirs \cup {args[i].output_dir}
               /\ pc' = [pc EXCEPT ![i] = "filename"]
               /\ result' = result
          ELSE /\ dirs' = dirs
               /\ pc' = [pc EXCEPT ![i] = "done"]
               /\ result' = [result EXCEPT ![i] = r]
    /\ UNCHANGED <<concIdle, args, now, operation_id, output_path, video_url, files>>

\* video_generator.py lines 64-68: the filename is derived from the clock
ConcResolveFilename(i) ==
    /\ pc[i] = "filename"
    /\ LET filename == IF args[i].filename = <<>>
                       THEN GenerateFilename(args[i].creator_name, args[i].resolution, now)
                       ELSE args[i].filename
       IN output_path' = [output_path EXCEPT ![i] = PathJoin(args[i].output_dir, filename)]
    /\ pc' = [pc EXCEPT ![i] = "submit"]
    /\ UNCHANGED <<concIdle, args, now, operation_id, video_url, dirs, files, result>>

\* video_generator.py line 72: create_ai_ad returns this instance's job
\* handle or raises
ConcSubmit(i) ==
    /\ pc[i] = "submit"
    /\ \/ /\ operation_id' = [operation_id EXCEPT ![i] = OperationIdOf(i)]
          /\ pc' = [pc EXCEPT ![i] = "wait"]
          /\ result' = result
       \/ /\ operation_id' = operation_id
          /\ pc' = [pc EXCEPT ![i] = "done"]
          /\ result' = [result EXCEPT ![i] =
                          MakeRequest(TransportFailure("connection refused"))]
    /\ UNCHANGED <<concIdle, args, now, output_path, video_url, dirs, files>>

\* video_generator.py line 75: wait_for_completion returns the URL of this
\* instance's video or raises
ConcWait(i) ==
    /\ pc[i] = "wait"
    /\ \/ /\ video_url' = [video_url EXCEPT ![i] = VideoUrlOf(i)]
          /\ pc' = [pc EXCEPT ![i] = "download"]
          /\ result' = result
       \/ /\ video_url' = video_url
          /\ pc' = [pc EXCEPT ![i] = "done"]
          /\ result' = [result EXCEPT ![i] = TimeoutError(operation_id[i], DefaultTimeout)]
    /\ UNCHANGED <<concIdle, args, now, operation_id, output_path, dirs, files>>

\* position before the k-th f.write of the chunk loop
WritePc(k) == "write" \o ToString(k)

\* captions_api.py lines 207-213: the GET is answered, the directory is made
\* and open(output_path, 'wb') creates or truncates the file
ConcOpen(i) ==
    /\ pc[i] = "download"
    /\ \/ /\ dirs' = dirs \cup {output_path[i].dir}
          /\ files' = IF output_path[i] \in DOMAIN files
                      THEN [files EXCEPT ![output_path[i]] = <<>>]
                      ELSE files @@ (output_path[i] :> <<>>)
          /\ pc' = [pc EXCEPT ![i] = WritePc(1)]
          /\ result' = result
       \/ /\ UNCHANGED <<dirs, files>>
          /\ pc' = [pc EXCEPT ![i] = "done"]
          /\ result' = [result EXCEPT ![i] = DownloadFailed(HTTPErrorStr(404))]
    /\ UNCHANGED <<concIdle, args, now, operation_id, output_path, video_url>>

\* captions_api.py lines 214-215: one f.write of the chunk loop; chunk k goes
\* to this handle's own offset k; after the last one the file is closed
ConcWrite(i) ==
    \E k \in 1..NumChunks :
       /\ pc[i] = WritePc(k)
       /\ files' = [files EXCEPT ![output_path[i]] = WriteAt(@, k, VideoOf(i)[k])]
       /\ pc' = [pc EXCEPT ![i] = IF k = NumChunks THEN "return" ELSE WritePc(k + 1)]
       /\ UNCHANGED <<concIdle, args, now, operation_id, output_path, video_url, dirs,
                      result>>

\* captions_api.py line 218, video_generator.py line 81
ConcReturn(i) ==
    /\ pc[i] = "return"
    /\ result' = [result EXCEPT ![i] = Return(output_path[i])]
    /\ pc' = [pc EXCEPT ![i] = "done"]
    /\ UNCHANGED <<concIdle, args, now, operation_id, output_path, video_url, dirs, files>>

ConcNext ==
    \/ Tick
    \/ \E i \in Inst :
         \/ ConcPrepare(i)
         \/ ConcResolveFilename(i)
         \/ ConcSubmit(i)
         \/ ConcWait(i)
         \/ ConcOpen(i)
         \/ ConcWrite(i)
         \/ ConcReturn(i)

ConcSpec == ConcInit /\ [][ConcNext]_vars

\* ------------------------------------------------------------ main.py
\* The commands of the command line.  Here args holds the command, its
\* options and what it finds in its environment, calls holds the print_error
\* calls made so far, and result the exit status of the process.
\* a JSON value of product.json, by its type
JStr(s) == [type |-> "str", v |-> s]
JList(items) == [type |-> "list", v |-> items]
JNull == [type |-> "null", v |-> <<>>]
JNum == [type |-> "num", v |-> <<>>]

\* utils.validate_url on the URLs used here: urlparse finds a scheme and a
\* network location
WellFormedUrls == {"https://m/1.png", "https://m/2.png", PlaceholderMedia}
ValidateUrl(url) == url \in WellFormedUrls

BaseProduct ==
    ("script" :> JStr(GoodScript)) @@ ("creatorName" :> JStr(Jane))
      @@ ("mediaUrls" :> JList(<<"https://m/1.png", "https://m/2.png">>))
      @@ ("webhookId" :> JNull) @@ ("resolution" :> JStr(<<"f", "h", "d">>))
ProductData ==
    {BaseProduct,
     [f \in DOMAIN BaseProduct \ {"webhookId"} |-> BaseProduct[f]],
     [BaseProduct EXCEPT !["script"] = JNull],
     [BaseProduct EXCEPT !["script"] = JStr(<<" ", " ">>)],
     [BaseProduct EXCEPT !["script"] = JStr(PaddedShortScript)],
     [BaseProduct EXCEPT !["script"] = JNum],
     [BaseProduct EXCEPT !["creatorName"] = JStr(<<" ">>)],
     [BaseProduct EXCEPT !["mediaUrls"] = JList(<<>>)],
     [BaseProduct EXCEPT !["mediaUrls"] = JStr(<<"h">>)],
     [BaseProduct EXCEPT !["mediaUrls"] = JList(<<"https://m/1.png", "not a url">>)],
     [BaseProduct EXCEPT !["webhookId"] = JStr(<<"w", "h">>)],
     [BaseProduct EXCEPT !["resolution"] = JStr(<<"F", "H", "D">>)],
     [BaseProduct EXCEPT !["resolution"] = JStr(<<"s", "d">>)]}

\* product.json: not there, not JSON, or JSON data
ProductFiles ==
    {[exists |-> FALSE, parseable |-> FALSE, data |-> EmptyDict],
     [exists |-> TRUE, parseable |-> FALSE, data |-> EmptyDict]}
      \cup {[exists |-> TRUE, parseable |-> TRUE, data |-> d] : d \in ProductData}

CliKeys == {None, "key1"}
CliEnvs == {None, "env1"}
CliArgs ==
    {[command |-> "generate", product_file |-> pf, api_key |-> k, env |-> e,
      output_dir |-> "./generated_videos", filename |-> <<>>] :
        pf \in ProductFiles, k \in CliKeys, e \in CliEnvs}
      \cup {[command |-> "creators", api_key |-> k, env |-> e] :
              k \in CliKeys, e \in CliEnvs}
      \cup {[command |-> "list", dir_exists |-> x] : x \in BOOLEAN}
      \cup {[command |-> "validate", script |-> s, creator |-> <<"k">>] :
              s \in {GoodScript, PaddedShortScript, <<>>}}
      \cup {[command |-> "setup", env_file_exists |-> x, env |-> e] :
              x \in BOOLEAN, e \in CliEnvs}

\* main.py lines 96-111: the required fields that are missing or invalid
MissingFields(product_data) ==
    {field \in {"script", "creatorName", "mediaUrls", "webhookId", "resolution"} :
        IF field \notin DOMAIN product_data THEN TRUE
        ELSE IF field = "webhookId" THEN FALSE
        ELSE IF product_data[field].type = "null" THEN TRUE
        ELSE IF product_data[field].type = "str" /\ Strip(product_data[field].v) = <<>>
        THEN TRUE
        ELSE IF field = "mediaUrls"
        THEN IF product_data[field].type = "list"
             THEN Len(product_data[field].v) = 0
             ELSE TRUE
        ELSE FALSE}

\* main.py lines 81-133: the error the checks of generate print before they
\* call sys.exit(1); <<>> when every check passes.  A script that is not a
\* string has no strip(): the AttributeError is caught by line 176.
LoadError(pf) ==
    IF ~pf.exists THEN <<"Product file not found: ", "product.json">>
    ELSE IF ~pf.parseable THEN <<"Invalid JSON in ", "product.json">>
    ELSE IF MissingFields(pf.data) # {}
    THEN <<"Missing or invalid required fields in ", "product.json">>
    ELSE IF pf.data["script"].type # "str"
    THEN <<"Unexpected error: ", "object has no attribute 'strip'">>
    ELSE IF Len(Strip(pf.data["script"].v)) < MinScriptLen
    THEN <<"Script must be at least 10 characters long.">>
    ELSE IF pf.data["resolution"].type # "str"
          \/ pf.data["resolution"].v \notin {<<"f", "h", "d">>, <<"h", "d">>, <<"4", "k">>}
    THEN <<"Invalid resolution. Must be one of: ", "fhd, hd, 4k">>
    ELSE IF \E i \in 1..Len(pf.data["mediaUrls"].v) : ~ValidateUrl(pf.data["mediaUrls"].v[i])
    THEN <<"Invalid media URL at index ">>
    ELSE <<>>

\* what generate_ad_video can return or raise for the product data
GenerateOutcomes(d, output_dir) ==
    LET v == ValidateInputs(d["script"].v, d["creatorName"].v, d["resolution"].v)
    IN  IF ~v.ok THEN {v}
        ELSE {Return(PathJoin(output_dir,
                              GenerateFilename(d["creatorName"].v, d["resolution"].v,
                                               StartClock))),
              MakeRequest(TransportFailure("connection refused")),
              CreateAiAdResult(Return(EmptyDict)),
              TimeoutError("op123", DefaultTimeout),
              DownloadFailed(HTTPErrorStr(404)),
              OtherError("ValueError", <<"Expecting value">>)}

PrintError(msg) == [op |-> "print_error", msg |-> msg]
\* the process ends with this status after printing these errors
CliExit(code, errors) ==
    /\ pc' = "exit"
    /\ result' = Return(code)
    /\ calls' = calls \o errors

CliInit ==
    /\ entry = "cli"
    /\ args \in CliArgs
    /\ pc = "cli"
    /\ IdleInit

\* generate, lines 79-139: sys.exit(1) raises SystemExit, which neither
\* except clause catches
CliGenerateLoad ==
    /\ entry = "cli"
    /\ pc = "cli"
    /\ args.command = "generate"
    /\ LET err == LoadError(args.product_file)
       IN IF err # <<>>
          THEN CliExit(1, <<PrintError(err)>>)
          ELSE pc' = "run" /\ UNCHANGED <<result, calls>>
    /\ UNCHANGED <<entry, args, now, start_time, timeout, poll_interval, operation_id,
                   output_path, video_url, sleeps, lastResp, status, lastPollDur,
                   nonTerminal, dirs, files, waited>>

\* generate, lines 141-178
CliGenerateRun ==
    /\ entry = "cli"
    /\ pc = "run"
    /\ LET client == ClientInit(args.api_key, args.env)
       IN IF ~client.ok
          THEN CliExit(1, <<PrintError(client.msg)>>)
          ELSE \E r \in GenerateOutcomes(args.product_file.data, args.output_dir) :
                  IF r.ok THEN CliExit(0, <<>>)
                  ELSE IF r.exc = "CaptionsAPIError"
                  THEN CliExit(1, <<PrintError(r.msg)>>)
                  ELSE CliExit(1, <<PrintError(<<"Unexpected error: ">> \o r.msg)>>)
    /\ UNCHANGED <<entry, args, now, start_time, timeout, poll_interval, operation_id,
                   output_path, video_url, sleeps, lastResp, status, lastPollDur,
                   nonTerminal, dirs, files, waited>>

\* creators, lines 186-217: an exception that is not a CaptionsAPIError is
\* not caught; the interpreter prints the traceback and exits with status 1
CliCreators ==
    /\ entry = "cli"
    /\ pc = "cli"
    /\ args.command = "creators"
    /\ LET client == ClientInit(args.api_key, args.env)
       IN IF ~client.ok
          THEN CliExit(1, <<PrintError(client.msg)>>)
          ELSE \E resp \in ListResponses :
                  LET r == MakeRequest(resp)
                  IN IF r.ok THEN CliExit(0, <<>>)
                     ELSE IF r.exc = "CaptionsAPIError"
                     THEN CliExit(1, <<PrintError(r.msg)>>)
                     ELSE CliExit(1, <<[op |-> "traceback", msg |-> r.msg]>>)
    /\ UNCHANGED <<entry, args, now, start_time, timeout, poll_interval, operation_id,
                   output_path, video_url, sleeps, lastResp, status, lastPollDur,
                   nonTerminal, dirs, files, waited>>

\* list, lines 225-255
CliList ==
    /\ entry = "cli"
    /\ pc = "cli"
    /\ args.command = "list"
    /\ IF ~args.dir_exists
       THEN CliExit(1, <<PrintError(<<"Output directory does not exist: ">>)>>)
       ELSE CliExit(0, <<>>)
    /\ UNCHANGED <<entry, args, now, start_time, timeout, poll_interval, operation_id,
                   output_path, video_url, sleeps, lastResp, status, lastPollDur,
                   nonTerminal, dirs, files, waited>>

\* validate, lines 264-275: after print_error the command returns
CliValidate ==
    /\ entry = "cli"
    /\ pc = "cli"
    /\ args.command = "validate"
    /\ IF Len(Strip(args.script)) < MinScriptLen
       THEN CliExit(0, <<PrintError(<<"Script must be at least 10 characters long.">>)>>)
       ELSE CliExit(0, <<>>)
    /\ UNCHANGED <<entry, args, now, start_time, timeout, poll_interval, operation_id,
                   output_path, video_url, sleeps, lastResp, status, lastPollDur,
                   nonTerminal, dirs, files, waited>>

\* setup, lines 282-323: the .env file is written when it is missing (the
\* environment of the process stays as load_dotenv left it at import); then
\* VideoGenerator() is constructed and get_credits_info, which VideoGenerator
\* does not define, is called; both except clauses print and return
CliSetup ==
    /\ entry = "cli"
    /\ pc = "cli"
    /\ args.command = "setup"
    /\ files' = IF args.env_file_exists THEN files ELSE files \cup {".env"}
    /\ LET client == ClientInit(None, args.env)
       IN IF ~client.ok
          THEN CliExit(0, <<PrintError(<<"API connection failed: ">> \o client.msg)>>)
          ELSE CliExit(0, <<PrintError(<<"Unexpected error: ",
                               "'VideoGenerator' object has no attribute 'get_credits_info'">>)>>)
    /\ UNCHANGED <<entry, args, now, start_time, timeout, poll_interval, operation_id,
                   output_path, video_url, sleeps, lastResp, status, lastPollDur,
                   nonTerminal, dirs, waited>>

CliNext ==
    \/ CliGenerateLoad
    \/ CliGenerateRun
    \/ CliCreators
    \/ CliList
    \/ CliValidate
    \/ CliSetup

CliSpec == CliInit /\ [][CliNext]_vars

\* ================================================================ claims
PollIdx == {i \in 1..Len(calls) : calls[i].op = "poll"}
NumPolls == Cardinality(PollIdx)
IssuesPoll == Len(calls') = Len(calls) + 1 /\ calls'[Len(calls')].op = "poll"
StateOf(st) == Get(st, "state", "unknown")
CompleteWithUrl(st) == StateOf(st) = "COMPLETE" /\ Truthy(Get(st, "url", None))
CompleteNoUrl(st) == StateOf(st) = "COMPLETE" /\ ~Truthy(Get(st, "url", None))
Unrecognized(st) ==
    /\ st # NoStatus
    /\ StateOf(st) \notin {"PENDING", "PROCESSING", "QUEUED", "COMPLETE", "FAILED"}
FixedSleeps == \A i \in 1..Len(sleeps) : sleeps[i] = poll_interval

\* C1: the timeout check precedes each poll: a poll is issued only while the
\* elapsed time does not exceed the timeout; at the top of the loop with the
\* budget exceeded the call raises the timeout error without a new poll; a
\* poll in flight is never ended by the timeout error.
C1_TimeoutBeforePoll ==
    [][/\ IssuesPoll => ~(now - start_time > timeout)
       /\ (pc = "loop" /\ now - start_time > timeout)
            => (calls' = calls /\ waited' = TimeoutError(operation_id, timeout))
       /\ pc = "polling" => waited' # TimeoutError(operation_id, timeout)]_vars

\* a poll returned after the budget was exhausted, the loop slept and then
\* raised the timeout
C1_Witness ==
    /\ waited = TimeoutError(operation_id, timeout)
    /\ NumPolls >= 2
    /\ lastPollDur > 0
    /\ now - poll_interval - start_time > timeout

\* C2: n non-terminal statuses followed by COMPLETE with URL u: the wait
\* returns u after n sleeps of the poll interval each and n+1 polls, and no
\* poll or sleep follows.
C2_ReturnsUrlAfterNSleeps ==
    /\ [](CompleteWithUrl(status) =>
            /\ waited = Return(status["url"])
            /\ Len(sleeps) = nonTerminal
            /\ FixedSleeps
            /\ NumPolls = nonTerminal + 1)
    /\ [][CompleteWithUrl(status) => (calls' \in {calls, Append(calls, [op |-> "download", url |-> status["url"],
                                                      path |-> output_path])}
                                      /\ sleeps' = sleeps)]_vars

\* [PENDING-like, PENDING-like, COMPLETE(url)] returned the URL after two sleeps
C2_Witness ==
    /\ CompleteWithUrl(status)
    /\ waited = Return(VideoUrl)
    /\ nonTerminal = 2
    /\ Len(sleeps) = 2

\* C3: COMPLETE without a result URL (absent, empty or null) fails at once
\* with "Job completed but no video URL found"; no poll and no sleep follows.
C3_CompleteWithoutUrlFatal ==
    /\ [](CompleteNoUrl(status) =>
            /\ pc = "done"
            /\ waited = CaptionsAPIError(<<"Job completed but no video URL found">>)
            /\ result = waited
            /\ Len(sleeps) = nonTerminal
            /\ NumPolls = nonTerminal + 1)
    /\ [][CompleteNoUrl(status) => (calls' = calls /\ sleeps' = sleeps)]_vars

C3_Witness ==
    /\ CompleteNoUrl(status)
    /\ "url" \notin DOMAIN status
    /\ nonTerminal = 1
    /\ pc = "done"

\* C4: FAILED ends the wait with an error carrying the upstream error detail,
\* or "Unknown error" when the status has no error field; no poll follows.
C4_FailedCarriesDetail ==
    /\ [](StateOf(status) = "FAILED" =>
            /\ pc = "done"
            /\ waited = CaptionsAPIError(
                 <<"Job ", operation_id, " failed: ",
                   IF "error" \in DOMAIN status THEN status["error"] ELSE "Unknown error">>)
            /\ result = waited
            /\ NumPolls = nonTerminal + 1)
    /\ [][StateOf(status) = "FAILED" => calls' = calls]_vars

C4_Witness ==
    /\ StateOf(status) = "FAILED"
    /\ "bad media" \in Range(waited.msg)
    /\ nonTerminal = 1

\* C5: a state outside the five known ones, or a status without state field,
\* ends the wait at once with "Unknown job state" naming the value received
\* ("unknown" when there is none); no sleep and no poll follows.
C5_UnrecognizedStateFatal ==
    /\ [](Unrecognized(status) =>
            /\ pc = "done"
            /\ ~waited.ok
            /\ waited.exc = "CaptionsAPIError"
            /\ waited.msg = <<"Unknown job state: ",
                              IF "state" \in DOMAIN status THEN status["state"]
                              ELSE "unknown">>
            /\ result = waited
            /\ Len(sleeps) = nonTerminal
            /\ NumPolls = nonTerminal + 1)
    /\ [][Unrecognized(status) => (calls' = calls /\ sleeps' = sleeps)]_vars

C5_Witness ==
    /\ Unrecognized(status)
    /\ "WEIRD_STATE" \in Range(waited.msg)
    /\ nonTerminal = 1

TimeoutRaised == waited = TimeoutError(operation_id, timeout)
HasDownload == \E i \in 1..Len(calls) : calls[i].op = "download"

\* C6 as stated: with an upstream that never reports a terminal state the
\* timeout is raised at most roughly one poll interval after the budget; read
\* generously, within two poll intervals.
C6_OvershootOnePollInterval ==
    (TimeoutRaised /\ NumPolls = nonTerminal)
        => now - start_time <= timeout + 2 * poll_interval

\* C6 amended: when every poll returns and reports a non-terminal state, the
\* wait ends, with the timeout error and nothing else, raised after the budget
\* and no later than one poll interval plus the time the last poll was in
\* flight after it; every wait that entered its loop ends.
C6_TimeoutBoundedByLastPoll ==
    /\ []((waited # Pending /\ NumPolls = nonTerminal) =>
            /\ TimeoutRaised
            /\ result = waited
            /\ NumPolls >= 1
            /\ now - start_time > timeout
            /\ now - start_time <= timeout + poll_interval + lastPollDur)
    /\ (pc = "loop" ~> waited # Pending)

\* timeout 1, poll interval 10, a slow last poll: the error comes 25 time
\* units after the start
C6_Witness ==
    /\ TimeoutRaised
    /\ NumPolls = nonTerminal
    /\ timeout = 1
    /\ poll_interval = 10
    /\ lastPollDur > poll_interval
    /\ now - start_time > timeout + 2 * poll_interval

ValidationMessages ==
    {"Script must be at least 10 characters long", "Creator name is required",
     "Invalid resolution. Must be one of: "}
ValidationFailed == ~result.ok /\ result # Pending /\ result.msg[1] \in ValidationMessages

\* C7: validation precedes every effect of generate_ad_video: a call that
\* fails validation has issued no network call, created no directory and
\* written no file, and any effect implies the inputs were valid.
C7_ValidationBeforeEffects ==
    entry = "generate" =>
        /\ ValidationFailed =>
             (pc = "done" /\ calls = <<>> /\ dirs = {} /\ files = {} /\ sleeps = <<>>)
        /\ (calls # <<>> \/ dirs # {} \/ files # {} \/ pc \notin {"validate", "done"})
             => ValidateInputs(args.script, args.creator_name, args.resolution).ok
        /\ (pc # "validate"
              /\ ~ValidateInputs(args.script, args.creator_name, args.resolution).ok)
             => ValidationFailed

C7_Witness ==
    /\ entry = "generate"
    /\ ValidationFailed
    /\ args.resolution = <<"s", "d">>
    /\ pc = "done"

\* C8: the download runs only after wait_for_completion returned a URL; when
\* submit or the wait fails, generate_ad_video raises that error, never calls
\* download and writes no file.
C8_DownloadOnlyAfterSuccess ==
    entry = "generate" =>
        /\ (HasDownload \/ files # {} \/ pc \in {"download", "downloading"})
             => (/\ waited.ok
                 /\ video_url = waited.value
                 /\ CompleteWithUrl(status)
                 /\ video_url = status["url"])
        /\ (pc = "done" /\ calls # <<>> /\ ~waited.ok)
             => (/\ ~result.ok
                 /\ result # Pending
                 /\ ~HasDownload
                 /\ files = {}
                 /\ waited # Pending => result = waited
                 /\ waited = Pending => (NumPolls = 0 /\ Len(calls) = 1))
        /\ (pc = "done" /\ StateOf(status) = "FAILED" /\ "error" \in DOMAIN status)
             => status["error"] \in Range(result.msg)

\* submit returned op123, the first poll reported FAILED with "bad media"
C8_Witness ==
    /\ entry = "generate"
    /\ pc = "done"
    /\ operation_id = "op123"
    /\ NumPolls = 1
    /\ StateOf(status) = "FAILED"
    /\ "bad media" \in Range(result.msg)
    /\ files = {}

\* the last call issued was a submit or a poll and it was answered with HTTP
\* 400, 401, 402 or 429 or failed at transport level
AnsweredFailure ==
    /\ pc \notin {"submitting", "polling", "downloading"}
    /\ calls # <<>>
    /\ calls[Len(calls)].op \in {"submit", "poll"}
    /\ \/ lastResp.kind = "transport"
       \/ lastResp.kind = "http" /\ lastResp.status \in {400, 401, 402, 429}

\* the first part of the message the error mapping gives a failure
MappedMessage(resp) ==
    IF resp.kind = "transport" THEN "API request failed: "
    ELSE CASE resp.status = 401 -> "Invalid API key. Please check your credentials."
           [] resp.status = 429 -> "Rate limit exceeded. Please wait before making another request."
           [] resp.status = 402 -> "Insufficient credits. Please purchase more credits."
           [] resp.status = 400 -> "Bad request: "
           [] OTHER -> "API request failed: "

\* C9: no silent recovery: a submit or poll answered with 400, 401, 402, 429
\* or a transport failure ends the operation with the mapped error, and no
\* further call or sleep follows.
C9_NoRetryOnFailure ==
    /\ [](AnsweredFailure =>
            /\ pc = "done"
            /\ ~result.ok
            /\ result.exc = "CaptionsAPIError"
            /\ result.msg[1] = MappedMessage(lastResp))
    /\ [][AnsweredFailure => (calls' = calls /\ sleeps' = sleeps)]_vars

\* a poll after one non-terminal status was answered with 429
C9_Witness ==
    /\ AnsweredFailure
    /\ lastResp.kind = "http"
    /\ lastResp.status = 429
    /\ calls[Len(calls)].op = "poll"
    /\ nonTerminal = 1

RequestDone == entry = "request" /\ pc = "done"

\* C10 as stated: the fixed table for every status, every status outside 2xx
\* being a failure and every 2xx response returning the parsed body.
C10_TableEveryStatus ==
    RequestDone =>
        IF lastResp.kind = "http" /\ lastResp.status >= 200 /\ lastResp.status <= 299
        THEN result = Return(lastResp.body)
        ELSE /\ ~result.ok
             /\ result.exc = "CaptionsAPIError"
             /\ result.msg[1] = MappedMessage(lastResp)

\* C10 amended: the table holds for transport failures and for the statuses
\* 400..599 (401, 429, 402, 400, any other -> "API request failed"), each a
\* CaptionsAPIError; a response with a status below 400 (2xx and 3xx alike)
\* whose body is valid JSON raises nothing and returns the parsed body.
C10_TableErrorStatuses ==
    RequestDone =>
        /\ (lastResp.kind = "transport"
              \/ (lastResp.kind = "http" /\ lastResp.status >= 400 /\ lastResp.status <= 599))
             => (/\ ~result.ok
                 /\ result.exc = "CaptionsAPIError"
                 /\ result.msg[1] = MappedMessage(lastResp))
        /\ (lastResp.kind = "http" /\ lastResp.status < 400 /\ lastResp.parseable)
             => result = Return(lastResp.body)

\* a 304 with a JSON body was returned as a success
C10_Witness ==
    /\ RequestDone
    /\ lastResp.kind = "http"
    /\ lastResp.status = 304
    /\ result = Return("k" :> "v")

\* C11: on HTTP 400 the "Bad request" error carries the parsed error body
\* whenever the body is parseable, and the raw response text only when the
\* body cannot be parsed.
C11_BadRequestCarriesParsedBody ==
    (RequestDone /\ lastResp.kind = "http" /\ lastResp.status = 400) =>
        result = CaptionsAPIError(<<"Bad request: ",
                                    IF lastResp.parseable
                                    THEN DictStr(lastResp.body)
                                    ELSE lastResp.text>>)

\* the last call issued, of any of the four operations, was answered with a
\* transport failure or a status from 400 to 599
CallFailed ==
    /\ pc \notin {"submitting", "polling", "downloading", "listing"}
    /\ calls # <<>>
    /\ calls[Len(calls)].op \in {"submit", "poll", "list", "download"}
    /\ \/ lastResp.kind = "transport"
       \/ lastResp.kind = "http" /\ RaisesForStatus(lastResp.status)

\* C12 as stated: the error mapping is uniform for every call, the download
\* included: a failed call of any of the four operations ends with the
\* message the mapping table gives its failure (401 -> "Invalid API key").
C12_UniformMappingEveryCall ==
    CallFailed =>
        /\ pc = "done"
        /\ ~result.ok
        /\ result.exc = "CaptionsAPIError"
        /\ result.msg[1] = MappedMessage(lastResp)

\* C12 amended: the mapping table applies to the calls that go through
\* _make_request (submit, poll, list creators); a failed download ends with
\* the CaptionsAPIError "Failed to download video: " and the underlying
\* detail, whatever the status.
C12_MappingPerOperation ==
    CallFailed =>
        /\ pc = "done"
        /\ ~result.ok
        /\ result.exc = "CaptionsAPIError"
        /\ result.msg[1] = IF calls[Len(calls)].op = "download"
                           THEN "Failed to download video: "
                           ELSE MappedMessage(lastResp)

\* the download was answered with HTTP 401
C12_Witness ==
    /\ CallFailed
    /\ calls[Len(calls)].op = "download"
    /\ lastResp.status = 401
    /\ result = CaptionsAPIError(<<"Failed to download video: ", "401">>)

\* the one call so far is the submit, and it was answered at HTTP level with
\* a JSON body whose operationId is absent, null or empty
SubmittedNoId ==
    /\ entry = "generate"
    /\ Len(calls) = 1
    /\ calls[1].op = "submit"
    /\ pc # "submitting"
    /\ lastResp.kind = "http"
    /\ ~RaisesForStatus(lastResp.status)
    /\ lastResp.parseable
    /\ Get(lastResp.body, "operationId", None) \in {None, ""}

\* C13: when the submit succeeds at HTTP level but the response carries no
\* operation id (absent or empty), create_ai_ad fails with "No operation ID
\* received from API", no handle is produced, and generate_ad_video issues no
\* poll and no download and writes no file.
C13_NoHandleNoPoll ==
    /\ [](SubmittedNoId =>
            /\ pc = "done"
            /\ result = CaptionsAPIError(<<"No operation ID received from API">>)
            /\ operation_id = None
            /\ files = {})
    /\ [][SubmittedNoId => (calls' = calls /\ sleeps' = sleeps /\ files' = files)]_vars

\* the submit was answered 200 with an empty operationId
C13_Witness ==
    /\ SubmittedNoId
    /\ lastResp.status = 200
    /\ lastResp.body = ("operationId" :> "")
    /\ pc = "done"
    /\ ~result.ok

\* length of s without its leading and trailing whitespace
TrimLen(s) ==
    LET solid == {i \in 1..Len(s) : s[i] \notin Whitespace}
    IN  IF solid = {} THEN 0
        ELSE (CHOOSE i \in solid : \A j \in solid : j <= i)
               - (CHOOSE i \in solid : \A j \in solid : j >= i) + 1

CasePairs == {<<"F", "f">>, <<"H", "h">>, <<"D", "d">>, <<"K", "k">>}
SameIgnoringCase(a, b) ==
    /\ Len(a) = Len(b)
    /\ \A i \in 1..Len(a) :
         a[i] = b[i] \/ <<a[i], b[i]>> \in CasePairs \/ <<b[i], a[i]>> \in CasePairs
IsValidResolution(r) ==
    \E v \in {<<"f", "h", "d">>, <<"h", "d">>, <<"4", "k">>} : SameIgnoringCase(r, v)

ValidateDone == entry = "validate_inputs" /\ pc = "done"

\* C14: _validate_inputs fails if and only if the trimmed script is shorter
\* than 10 characters, or the creator name is empty after trimming, or the
\* resolution is not fhd, hd or 4k compared case-insensitively; otherwise it
\* succeeds, whatever the content of the script.
C14_ValidationIff ==
    ValidateDone =>
        LET bad == \/ TrimLen(args.script) < 10
                   \/ TrimLen(args.creator_name) = 0
                   \/ ~IsValidResolution(args.resolution)
        IN  /\ bad <=> ~result.ok
            /\ ~result.ok => (result.exc = "CaptionsAPIError"
                                /\ result.msg[1] \in ValidationMessages)
            /\ result.ok => result = Return(None)

\* a padded script of trimmed length exactly 10 with whitespace inside and a
\* mixed-case resolution passed
C14_Witness ==
    /\ ValidateDone
    /\ result.ok
    /\ TrimLen(args.script) = 10
    /\ Len(args.script) = 10 + 2 * MaxPad
    /\ args.script[2 + MaxPad] = " "
    /\ args.creator_name = <<" ", "k", " ">>
    /\ args.resolution = <<"F", "h", "d">>

SubmitIdx == {i \in 1..Len(calls) : calls[i].op = "submit"}

\* C15: the resolution of every submitted payload is one of "fhd", "hd",
\* "4k", for every input that passes validation, mixed-case inputs such as
\* "FHD" included.
C15_PayloadResolutionCanonical ==
    \A i \in SubmitIdx :
        calls[i].payload["resolution"] \in {<<"f", "h", "d">>, <<"h", "d">>, <<"4", "k">>}

\* C16: every submitted payload has a non-empty media list: a missing (None)
\* or empty list is replaced by exactly one placeholder URL, a non-empty list
\* is submitted unchanged and in order.
C16_MediaListNeverEmpty ==
    \A i \in SubmitIdx :
        LET media == calls[i].payload["mediaUrls"]
        IN  /\ Len(media) >= 1
            /\ (args.media_urls.none \/ Len(args.media_urls.items) = 0)
                 => media = <<PlaceholderMedia>>
            /\ (~args.media_urls.none /\ Len(args.media_urls.items) > 0)
                 => media = args.media_urls.items

\* a call with an empty media list was submitted with the placeholder
C16_Witness ==
    /\ SubmitIdx # {}
    /\ ~args.media_urls.none
    /\ args.media_urls.items = <<>>
    /\ calls[1].payload["mediaUrls"] = <<PlaceholderMedia>>

ConstructDone == entry = "construct" /\ pc = "done"
Present(k) == k # None /\ k # ""

\* C17: client construction requires a credential: an explicitly passed key
\* takes precedence over the environment value and is stored as the client's
\* key (and sent as its credential header); without an explicit key the
\* environment value is used; if neither is present (missing or empty)
\* construction fails with a CaptionsAPIError and no client exists.
C17_CredentialRequired ==
    ConstructDone =>
        /\ Present(args.api_key) =>
             (/\ result.ok
              /\ result.value.api_key = args.api_key
              /\ result.value.headers["x-api-key"] = args.api_key)
        /\ (~Present(args.api_key) /\ Present(args.env)) =>
             (result.ok /\ result.value.api_key = args.env)
        /\ (~Present(args.api_key) /\ ~Present(args.env)) =>
             (~result.ok /\ result.exc = "CaptionsAPIError")

\* both an explicit key and an environment value were given
C17_Witness ==
    /\ ConstructDone
    /\ args.api_key = "key1"
    /\ args.env = "env1"
    /\ result.ok
    /\ result.value.api_key = "key1"

FilenameDone == entry = "generate_filename" /\ pc = "done"

\* the characters [A-Za-z0-9._-]
SafeAscii ==
    {"A", "B", "C", "D", "E", "F", "G", "H", "I", "J", "K", "L", "M", "N", "O", "P", "Q",
     "R", "S", "T", "U", "V", "W", "X", "Y", "Z",
     "a", "b", "c", "d", "e", "f", "g", "h", "i", "j", "k", "l", "m", "n", "o", "p", "q",
     "r", "s", "t", "u", "v", "w", "x", "y", "z",
     "0", "1", "2", "3", "4", "5", "6", "7", "8", "9", ".", "_", "-"}
EndsInMp4(f) == Len(f) >= 4 /\ SubSeq(f, Len(f) - 3, Len(f)) = <<".", "m", "p", "4">>
\* number of characters of s that are in the set keep
Kept(s, keep) == Cardinality({i \in 1..Len(s) : s[i] \in keep})

\* C18 as stated: for every creator name and resolution, of any characters,
\* the derived filename contains only characters from [A-Za-z0-9._-] and
\* ends in ".mp4".
C18_FilenameAsciiOnly ==
    FilenameDone =>
        /\ Range(result.value) \subseteq SafeAscii
        /\ EndsInMp4(result.value)

\* C18 amended: the derived filename contains only alphanumeric characters,
\* non-ASCII letters and digits included, and ".", "_", "-"; every other
\* character is stripped, not escaped; the name ends in ".mp4"; when creator
\* name and resolution are ASCII the characters are from [A-Za-z0-9._-].
C18_FilenameAlnumOnly ==
    FilenameDone =>
        LET allowed == SafeAscii \cup UnicodeAlnum
        IN  /\ Range(result.value) \subseteq allowed
            /\ EndsInMp4(result.value)
            /\ Len(result.value) = 6 + Kept(args.creator_name, allowed) + 1
                                     + Kept(args.resolution, allowed) + 1 + 15 + 4
            /\ (Range(args.creator_name) \cup Range(args.resolution)) \cap UnicodeAlnum = {}
                 => Range(result.value) \subseteq SafeAscii

\* a creator name of a non-ASCII letter and a punctuation mark: the letter
\* is kept, the mark is stripped
C18_Witness ==
    /\ FilenameDone
    /\ args.creator_name = <<"é", "!">>
    /\ args.resolution = <<"f", "h", "d">>
    /\ SubSeq(result.value, 1, 12) = <<"a", "i", "_", "a", "d", "_", "é", "_", "f", "h", "d", "_">>

ConcDone(i) == entry = "concurrent" /\ pc[i] = "done" /\ result[i].ok

\* C19: two independent instances of the generate workflow, interleaved in
\* any order, do not affect each other: for each instance that returns a
\* path, the file at that path holds exactly the video of that instance's
\* own job, as it would had the instance run alone.
C19_OutcomeAsIfAlone ==
    entry = "concurrent" =>
        \A i \in Inst :
            ConcDone(i) =>
                /\ result[i].value = output_path[i]
                /\ output_path[i] \in DOMAIN files
                /\ files[output_path[i]] = VideoOf(i)

\* wait_for_completion raised one of its own errors about the job: the
\* timeout, FAILED, COMPLETE without a URL, or an unrecognized state
JobErrorRaised ==
    /\ entry \in {"generate", "wait"}
    /\ ~waited.ok
    /\ waited # Pending
    /\ waited.exc = "CaptionsAPIError"
    /\ \/ TimeoutRaised
       \/ /\ lastResp.kind = "http"
          /\ MakeRequest(lastResp).ok
          /\ \/ StateOf(status) = "FAILED"
             \/ CompleteNoUrl(status)
             \/ Unrecognized(status)

\* C20: every error wait_for_completion raises about a job (timeout, FAILED,
\* COMPLETE without a URL, unrecognized state) names the operation id that
\* was being polled.
C20_JobErrorNamesHandle ==
    JobErrorRaised => operation_id \in Range(waited.msg)

CliDone == entry = "cli" /\ pc = "exit"
ErrorPrinted == \E i \in 1..Len(calls) : calls[i].op \in {"print_error", "traceback"}

\* C21: whenever a command of the CLI prints an error (a core operation it
\* invoked raised, or it found its input invalid), the process exits with a
\* non-zero status: no command ends with exit status 0 after an error was
\* printed.
C21_ErrorExitsNonZero ==
    (CliDone /\ ErrorPrinted) => result.value # 0

\* every poll answered so far reported a non-terminal state
AllNonTerminal == nonTerminal = NumPolls
\* no poll took any time: the sleeps account for all the time elapsed
ZeroTimePolls == now - start_time = Len(sleeps) * poll_interval

\* C22: with polls that take no time, sleeps of exactly the poll interval
\* p > 0, a timeout T >= 0 and an upstream that always reports a
\* non-terminal state, wait_for_completion issues exactly floor(T/p) + 1
\* polls before it raises the timeout: at least one poll is issued, and a
\* poll is still issued when the elapsed time equals T exactly.
C22_PollCountBound ==
    /\ []((TimeoutRaised /\ AllNonTerminal /\ ZeroTimePolls /\ FixedSleeps) =>
            /\ NumPolls = (timeout \div poll_interval) + 1
            /\ NumPolls >= 1)
    /\ [][(pc = "loop" /\ now - start_time = timeout) => IssuesPoll]_vars

\* timeout 1 and poll interval 1: the second poll was issued at elapsed time
\* 1, the timeout was raised at elapsed time 2
C22_Witness ==
    /\ TimeoutRaised
    /\ AllNonTerminal
    /\ ZeroTimePolls
    /\ timeout = 1
    /\ poll_interval = 1
    /\ NumPolls = 2
    /\ now - start_time = 2

DownloadIdx == {i \in 1..Len(calls) : calls[i].op = "download"}

\* C23: in every execution of generate_ad_video the submit is invoked at most
\* once; every poll comes after it and carries the handle the submit
\* returned; the download is invoked at most once, after the last poll, with
\* the URL of the COMPLETE status that poll returned and the output path
\* resolved before the submission; the path returned to the caller is that
\* output path.
C23_WorkflowOrdering ==
    /\ [](entry = "generate" =>
            /\ Cardinality(SubmitIdx) <= 1
            /\ calls # <<>> => calls[1].op = "submit"
            /\ \A i \in PollIdx : i > 1 /\ calls[i].operationId = operation_id
            /\ Cardinality(DownloadIdx) <= 1
            /\ \A d \in DownloadIdx :
                 /\ d = Len(calls)
                 /\ PollIdx # {}
                 /\ calls[d - 1].op = "poll"
                 /\ StateOf(status) = "COMPLETE"
                 /\ calls[d].url = status["url"]
                 /\ calls[d].path = output_path
            /\ SubmitIdx # {} => output_path # NoPath
            /\ \A f \in files : f.path = output_path
            /\ (pc = "done" /\ result.ok) =>
                 (DownloadIdx # {} /\ result.value = output_path))
    /\ [][entry = "generate" =>
            /\ (pc = "submitting" /\ pc' = "wait_start")
                 => operation_id' = lastResp'.body["operationId"]
            /\ pc # "submitting" => operation_id' = operation_id
            /\ SubmitIdx # {} => output_path' = output_path]_vars

\* the full call: one non-terminal poll, then COMPLETE, then the download to
\* the path of the custom filename, which was returned
C23_Witness ==
    /\ entry = "generate"
    /\ args = FullArgs
    /\ pc = "done"
    /\ Len(calls) = 4
    /\ calls[2].operationId = "op123"
    /\ calls[3].operationId = "op123"
    /\ calls[4] = [op |-> "download", url |-> VideoUrl,
                   path |-> PathJoin("/tmp/out", <<"a", "d", ".", "m", "p", "4">>)]
    /\ result = Return(PathJoin("/tmp/out", <<"a", "d", ".", "m", "p", "4">>))
====
